---- MODULE Spec2Model ----
(***************************************************************************)
(* Model of apple-alert.py: the season gate, the retrying fetcher, the     *)
(* extractor, the threshold filter, the e-mail notifier and main.          *)
(*                                                                         *)
(* Text is a sequence of one-character strings, so that substring tests,   *)
(* lower-casing, float() and the ':.2f' format are computed, not assumed.  *)
(* A float is modelled by its value in thousandths (1.50 is 1500); the     *)
(* price strings of the model have at most three fractional digits.        *)
(* None is the empty tuple, a present value v is the one-element tuple.    *)
(***************************************************************************)
EXTENDS Integers, Sequences, FiniteSets, TLC

VARIABLES pc, month, EMAIL_PASSWORD, attempt, outcomes, sleeps, httpCalls,
          html_content, calls, deals, qualifying, log, smtp, email,
          sendResult, exitCode

vars == <<pc, month, EMAIL_PASSWORD, attempt, outcomes, sleeps, httpCalls,
          html_content, calls, deals, qualifying, log, smtp, email,
          sendResult, exitCode>>

\* ---------------------------------------------------------------- bounds
\* Longest response body (in markup fragments) the fetcher returns.
MaxFragments == 2
\* Longest list handed directly to a function under test.
MaxDeals == 3

\* ----------------------------------------------------- optional values
None == <<>>
Some(v) == <<v>>
IsNone(o) == o = <<>>
Val(o) == o[1]

\* ------------------------------------------------------ configuration
\* MIN_PRICE_PER_LB = 1.50, in thousandths of a dollar.
MIN_PRICE_PER_LB == 1500
ONLY_IN_SEASON == TRUE
SEASON_MONTHS == {8, 9, 10}
max_retries == 3

\* ------------------------------------------------------------- text
UpperCase == <<"A","B","C","D","E","F","G","H","I","J","K","L","M",
               "N","O","P","Q","R","S","T","U","V","W","X","Y","Z">>
LowerCase == <<"a","b","c","d","e","f","g","h","i","j","k","l","m",
               "n","o","p","q","r","s","t","u","v","w","x","y","z">>

\* str.lower() on one character.
LowerChar(c) ==
    IF \E i \in 1..26 : UpperCase[i] = c
    THEN LowerCase[CHOOSE i \in 1..26 : UpperCase[i] = c]
    ELSE c

\* str.lower()
Lower(s) == [i \in 1..Len(s) |-> LowerChar(s[i])]

\* sub in s
Contains(sub, s) ==
    \E k \in 0..(Len(s) - Len(sub)) :
        \A i \in 1..Len(sub) : s[k + i] = sub[i]

\* s.replace('+', ' ')
ReplacePlus(s) == [i \in 1..Len(s) |-> IF s[i] = "+" THEN " " ELSE s[i]]

\* s.strip(), as float() applies it to its argument (spaces only).
RECURSIVE LStrip(_)
LStrip(s) == IF s # <<>> /\ s[1] = " " THEN LStrip(Tail(s)) ELSE s
RECURSIVE RStrip(_)
RStrip(s) ==
    IF s # <<>> /\ s[Len(s)] = " " THEN RStrip(SubSeq(s, 1, Len(s) - 1)) ELSE s
Strip(s) == RStrip(LStrip(s))

Digits == <<"0","1","2","3","4","5","6","7","8","9">>
IsDigit(c) == \E i \in 1..10 : Digits[i] = c
DigitVal(c) == (CHOOSE i \in 1..10 : Digits[i] = c) - 1
AllDigits(s) == \A i \in 1..Len(s) : IsDigit(s[i])

RECURSIVE DigitsVal(_)
DigitsVal(s) ==
    IF s = <<>> THEN 0
    ELSE 10 * DigitsVal(SubSeq(s, 1, Len(s) - 1)) + DigitVal(s[Len(s)])

\* The fraction digits as thousandths: "2" is 200, "20" is 200, "501" is 501.
FracVal(s) ==
    LET p == SubSeq(s \o <<"0", "0", "0">>, 1, 3) IN DigitsVal(p)

\* float(s) on decimal literals [sign] digits [. digits]: Some(thousandths),
\* or None where float() raises ValueError.
ParseFloat(str) ==
    LET s    == Strip(str)
        neg  == s # <<>> /\ s[1] = "-"
        body == IF s # <<>> /\ (s[1] = "-" \/ s[1] = "+") THEN Tail(s) ELSE s
        dots == {i \in 1..Len(body) : body[i] = "."}
        ip   == IF dots = {} THEN body
                ELSE SubSeq(body, 1, (CHOOSE i \in dots : TRUE) - 1)
        fp   == IF dots = {} THEN <<>>
                ELSE SubSeq(body, (CHOOSE i \in dots : TRUE) + 1, Len(body))
        ok   == /\ Cardinality(dots) <= 1
                /\ AllDigits(ip) /\ AllDigits(fp)
                /\ Len(ip) + Len(fp) >= 1
        mag  == 1000 * DigitsVal(ip) + FracVal(fp)
    IN  IF ok THEN Some(IF neg THEN 0 - mag ELSE mag) ELSE None

\* Decimal digits of a natural number.
RECURSIVE NatStr(_)
NatStr(n) ==
    IF n < 10 THEN <<Digits[n + 1]>>
    ELSE NatStr(n \div 10) \o <<Digits[(n % 10) + 1]>>

\* f"{x:.2f}": thousandths rounded to cents (no model price ends in 5).
Fmt2f(m) ==
    LET a     == IF m < 0 THEN 0 - m ELSE m
        cents == (a + 5) \div 10
        sign  == IF m < 0 THEN <<"-">> ELSE <<>>
    IN  sign \o NatStr(cents \div 100) \o <<".">>
             \o <<Digits[((cents \div 10) % 10) + 1], Digits[(cents % 10) + 1]>>

\* ------------------------------------------------------ string literals
T_apple == <<"a", "p", "p", "l", "e">>
T_lb == <<"l", "b">>
T_pound == <<"p", "o", "u", "n", "d">>
T_GalaApples == <<"G", "a", "l", "a", "+", "A", "p", "p", "l", "e", "s">>
T_AppleJuice == <<"A", "p", "p", "l", "e", " ", "J", "u", "i", "c", "e">>
T_Honeycrisp == <<"H", "o", "n", "e", "y", "c", "r", "i", "s", "p">>
T_Pears == <<"P", "e", "a", "r", "s">>
T_FujiApples == <<"F", "u", "j", "i", " ", "A", "p", "p", "l", "e", "s">>
T_MacApples == <<"M", "a", "c", " ", "A", "p", "p", "l", "e", "s">>
T_120 == <<"1", ".", "2", "0">>
T_300 == <<"3", ".", "0", "0">>
T_150 == <<"1", ".", "5", "0">>
T_145 == <<"1", ".", "4", "5">>
T_1501 == <<"1", ".", "5", "0", "1">>
T_099 == <<" ", "0", ".", "9", "9">>
T_NA == <<"N", "/", "A">>
T_perlb == <<"p", "e", "r", " ", "l", "b">>
T_bottle == <<"6", "4", "o", "z", " ", "b", "o", "t", "t", "l", "e">>
T_PerPound == <<"P", "e", "r", " ", "P", "o", "u", "n", "d">>
T_3LBbag == <<"3", " ", "L", "B", " ", "b", "a", "g">>
T_produce == <<"p", "r", "o", "d", "u", "c", "e">>
T_beverage == <<"b", "e", "v", "e", "r", "a", "g", "e">>
T_APPLES == <<"A", "P", "P", "L", "E", "S">>
T_secret == <<"s", "3", "c", "r", "e", "t">>

\* ------------------------------------------------------------ markup
\* A fragment of the response body: a tag and the attributes it carries.
Div(a) == [tag |-> "div", attrs |-> a]

F_Gala == Div([data_name |-> T_GalaApples, data_price |-> T_120,
               data_variant |-> T_perlb, data_category |-> T_produce])
F_Juice == Div([data_name |-> T_AppleJuice, data_price |-> T_300,
                data_variant |-> T_bottle, data_category |-> T_beverage])
F_Honeycrisp == Div([data_name |-> T_Honeycrisp, data_price |-> T_150,
                     data_variant |-> T_PerPound, data_category |-> T_APPLES])
F_Pears == Div([data_name |-> T_Pears, data_price |-> T_099,
                data_variant |-> T_perlb, data_category |-> T_produce])
F_FujiBadPrice == Div([data_name |-> T_FujiApples, data_price |-> T_NA,
                       data_variant |-> T_perlb])
F_MacBag == Div([data_name |-> T_MacApples, data_price |-> T_1501,
                 data_variant |-> T_3LBbag])
F_Fuji == Div([data_name |-> T_FujiApples, data_price |-> T_145,
               data_variant |-> T_perlb])
F_Cider == Div([data_name |-> T_AppleJuice, data_price |-> T_120,
                data_variant |-> T_bottle])
F_NoPrice == Div([data_name |-> T_GalaApples])
F_Span == [tag |-> "span", attrs |-> [data_name |-> T_GalaApples,
                                      data_price |-> T_120]]

Fragments == {F_Gala, F_Juice, F_Honeycrisp, F_Pears, F_FujiBadPrice,
              F_MacBag, F_Fuji, F_Cider, F_NoPrice, F_Span}

SeqsUpTo(S, n) == UNION {[1..k -> S] : k \in 0..n}

\* Truthiness of an optional text or of a text: `not x` is ~Truthy(x).
Truthy(o) == ~IsNone(o) /\ Val(o) # <<>>

\* ------------------------------------------------------------ extractor
\* product.get(key, '')
Get(attrs, key) == IF key \in DOMAIN attrs THEN attrs[key] ELSE <<>>

\* soup.find_all('div', {'data-price': True, 'data-name': True})
IsProduct(f) ==
    /\ f.tag = "div"
    /\ "data_price" \in DOMAIN f.attrs
    /\ "data_name" \in DOMAIN f.attrs
find_all(body) == SelectSeq(body, IsProduct)

\* The relevance test on the name alone.
IsAppleRelated_nameOnly(name, category) == Contains(T_apple, Lower(name))

IsAppleRelated(name, category) ==
    Contains(T_apple, Lower(name)) \/ Contains(T_apple, Lower(category))

IsPerLb(variant) ==
    Contains(T_lb, Lower(variant)) \/ Contains(T_pound, Lower(variant))

\* The unit price taken from the price whatever the sale unit.
UnitPriceOf_always(price, is_per_lb) == Some(price)

UnitPriceOf(price, is_per_lb) == IF is_per_lb THEN Some(price) ELSE None

\* One iteration of the loop over products: the deals it appends (0 or 1).
ParseProduct(product) ==
    LET name     == ReplacePlus(Get(product.attrs, "data_name"))
        price    == ParseFloat(Get(product.attrs, "data_price"))
        variant  == Get(product.attrs, "data_variant")
        category == Get(product.attrs, "data_category")
    IN  IF ~IsAppleRelated(name, category) THEN <<>>
        ELSE IF IsNone(price) THEN <<>>
        ELSE <<[name       |-> name,
                price      |-> Val(price),
                variant    |-> variant,
                category   |-> category,
                is_per_lb  |-> IsPerLb(variant),
                unit_price |-> UnitPriceOf(Val(price), IsPerLb(variant))]>>

RECURSIVE ParseProducts(_)
ParseProducts(products) ==
    IF products = <<>> THEN <<>>
    ELSE ParseProduct(products[1]) \o ParseProducts(Tail(products))

parse_apple_deals(content) ==
    IF ~Truthy(content) THEN <<>> ELSE ParseProducts(find_all(Val(content)))

\* --------------------------------------------------------------- filter
\* The threshold test made strict: `unit_price < MIN_PRICE_PER_LB`.
Qualifies_strict(deal) ==
    /\ ~IsNone(deal.unit_price)
    /\ Val(deal.unit_price) < MIN_PRICE_PER_LB

Qualifies(deal) ==
    /\ ~IsNone(deal.unit_price)
    /\ Val(deal.unit_price) <= MIN_PRICE_PER_LB

RECURSIVE filter_qualifying_deals(_)
filter_qualifying_deals(ds) ==
    IF ds = <<>> THEN <<>>
    ELSE (IF Qualifies(ds[1]) THEN <<ds[1]>> ELSE <<>>)
         \o filter_qualifying_deals(Tail(ds))

\* ------------------------------------------------------------- notifier
T_perLbDash == <<"/", "l", "b", " ", "-", " ">>
T_subjectHead == <<"A", "p", "p", "l", "e", " ", "D", "e", "a", "l", " ",
                   "A", "l", "e", "r", "t", " ", "-", " ">>
T_subjectTail == <<" ", "d", "e", "a", "l", "(", "s", ")", " ",
                   "f", "o", "u", "n", "d", "!">>

\* sorted(deals, key=lambda x: x['unit_price']): a stable sort, ascending.
RECURSIVE InsertByUnitPrice(_, _)
InsertByUnitPrice(d, s) ==
    IF s = <<>> THEN <<d>>
    ELSE IF Val(d.unit_price) < Val(s[1].unit_price) THEN <<d>> \o s
    ELSE <<s[1]>> \o InsertByUnitPrice(d, Tail(s))

RECURSIVE SortInto(_, _)
SortInto(ds, acc) ==
    IF ds = <<>> THEN acc
    ELSE SortInto(Tail(ds), InsertByUnitPrice(ds[1], acc))

\* The deals listed in the order given.
SortedByUnitPrice_unsorted(ds) == ds

SortedByUnitPrice(ds) == SortInto(ds, <<>>)

\* f"${deal['unit_price']:.2f}/lb - {deal['name']} ({deal['variant']})"
\* (the text of one line, without its bullet and its newline).
DealLine(deal) ==
    <<"$">> \o Fmt2f(Val(deal.unit_price)) \o T_perLbDash
            \o deal.name \o <<" ", "(">> \o deal.variant \o <<")">>

\* Comparing or formatting a unit_price of None raises TypeError.
ComposeRaises(ds) == \E i \in 1..Len(ds) : IsNone(ds[i].unit_price)

\* The message built by lines 162-174: the subject and the deal lines of
\* the body (between the fixed greeting and the closing timestamp).
Compose(ds) ==
    LET sorted == SortedByUnitPrice(ds) IN
    [subject |-> T_subjectHead \o NatStr(Len(ds)) \o T_subjectTail,
     lines   |-> [i \in 1..Len(ds) |-> DealLine(sorted[i])]]

\* The SMTP operations of lines 177-182, in order.
SmtpSteps == <<"connect", "starttls", "login", "sendmail", "quit">>
\* Where the environment makes a run of send_alert_email fail, if anywhere.
FailPoints == {"none", "compose", "connect", "starttls", "login",
               "sendmail", "quit"}
StepIndex(step) == CHOOSE i \in 1..Len(SmtpSteps) : SmtpSteps[i] = step

\* The operations invoked, each with whether it succeeded: all of them, or
\* those up to and including the one that raises.
SmtpRun(fail) ==
    IF fail = "none"
    THEN [i \in 1..Len(SmtpSteps) |-> [op |-> SmtpSteps[i], ok |-> TRUE]]
    ELSE [i \in 1..StepIndex(fail) |->
             [op |-> SmtpSteps[i], ok |-> i < StepIndex(fail)]]

\* `if EMAIL_PASSWORD is None`: an empty credential passes.
PasswordSet_notNone(pw) == ~IsNone(pw)

\* `if not EMAIL_PASSWORD` is ~PasswordSet(EMAIL_PASSWORD)
PasswordSet(pw) == Truthy(pw)

\* `except smtplib.SMTPException`: a socket error of the connection escapes.
ExceptCatches_smtpOnly(fail) == fail # "connect"

\* `except Exception` catches whatever a step of the try body raises.
ExceptCatches(fail) == TRUE

Msg(m) == [msg |-> m, text |-> <<>>]

\* send_alert_email(deals), with the credential it reads and the failure the
\* environment injects: the value returned (None when an exception leaves
\* the function), the SMTP operations invoked, the message composed and the
\* lines printed.
send_alert_email(ds, pw, fail) ==
    IF ~PasswordSet(pw)
    THEN [ret |-> Some(FALSE), smtp |-> <<>>, email |-> None,
          log |-> <<Msg("error: SMTP_PASSWORD not set")>>]
    ELSE IF fail = "compose" \/ ComposeRaises(ds)
    THEN [ret   |-> IF ExceptCatches("compose") THEN Some(FALSE) ELSE None,
          smtp  |-> <<>>, email |-> None,
          log   |-> IF ExceptCatches("compose")
                    THEN <<Msg("error: Failed to send email")>> ELSE <<>>]
    ELSE IF fail = "none"
    THEN [ret |-> Some(TRUE), smtp |-> SmtpRun(fail),
          email |-> Some(Compose(ds)),
          log |-> <<Msg("info: Alert email sent")>>]
    ELSE [ret   |-> IF ExceptCatches(fail) THEN Some(FALSE) ELSE None,
          smtp  |-> SmtpRun(fail), email |-> Some(Compose(ds)),
          log   |-> IF ExceptCatches(fail)
                    THEN <<Msg("error: Failed to send email")>> ELSE <<>>]

\* ----------------------------------------------------------- season gate
\* The season with its end left open: `now.month >= 8`.
in_season_fromAugust(m) == m >= 8

\* in_season(), for the month the clock shows.
in_season(m) == m \in SEASON_MONTHS

\* -------------------------------------------------------------- fetcher
\* The loop bound off by one: `range(max_retries + 1)`.
RangeHasNext_offByOne(a) == a <= max_retries

\* `for attempt in range(max_retries)`: whether the loop has an iteration a.
RangeHasNext(a) == a < max_retries

RECURSIVE Pow2(_)
Pow2(n) == IF n = 0 THEN 1 ELSE 2 * Pow2(n - 1)

\* The sleeps of one iteration: the backoff 2**attempt + uniform(0, 1) on a
\* retry, then the pacing delay uniform(1, 3); each by its range in seconds.
AttemptSleeps(a) ==
    (IF a > 0
     THEN <<[kind |-> "backoff", lo |-> Pow2(a), hi |-> Pow2(a) + 1]>>
     ELSE <<>>)
    \o <<[kind |-> "pace", lo |-> 1, hi |-> 3]>>

RetryLog(a) == IF a > 0 THEN <<Msg("info: Retry")>> ELSE <<>>

\* The bodies a successful response can carry; <<>> is the empty string.
Bodies == SeqsUpTo(Fragments, MaxFragments)

\* The kinds of failure of an attempt: requests.Timeout, and any other
\* requests.RequestException (connection error, HTTP error status).
FailureKinds == {"timeout", "error"}

\* `if not html_content` in main is ~HasContent(html_content)
HasContent(content) == Truthy(content)

\* The emptiness checks of main left out.
IsEmptyList_never(l) == FALSE

\* `if not deals`, `if not qualifying`
IsEmptyList(l) == l = <<>>

\* ----------------------------------------------------------------- state
Passwords == {None, Some(<<>>), Some(T_secret)}
Months == 1..12

Idle ==
    /\ attempt = 0 /\ outcomes = <<>> /\ sleeps = <<>> /\ httpCalls = 0
    /\ calls = <<>> /\ log = <<>> /\ smtp = <<>> /\ email = None
    /\ sendResult = None /\ exitCode = None

Init ==
    /\ pc = "main"
    /\ month \in Months
    /\ EMAIL_PASSWORD \in Passwords
    /\ html_content = None /\ deals = <<>> /\ qualifying = <<>>
    /\ Idle

\* sys.exit(code), or main returning (code 0).
Exit(code) == pc' = "exited" /\ exitCode' = Some(code)

\* main, lines 192-196: the season gate, then the call of the fetcher.
SeasonGate ==
    /\ pc = "main"
    /\ IF ONLY_IN_SEASON /\ ~in_season(month)
       THEN /\ Exit(0)
            /\ calls' = calls \o <<"in_season">>
       ELSE /\ pc' = "fetch"
            /\ calls' = calls \o (IF ONLY_IN_SEASON THEN <<"in_season">> ELSE <<>>)
                              \o <<"search_hannaford_apples">>
            /\ UNCHANGED exitCode
    /\ UNCHANGED <<month, EMAIL_PASSWORD, attempt, outcomes, sleeps, httpCalls,
                   html_content, deals, qualifying, log, smtp, email,
                   sendResult>>

\* search_hannaford_apples, one iteration of the loop in which the request
\* succeeds: the function returns response.text.
FetchSuccess(body) ==
    /\ pc = "fetch"
    /\ sleeps' = sleeps \o AttemptSleeps(attempt)
    /\ httpCalls' = httpCalls + 1
    /\ outcomes' = Append(outcomes, "ok")
    /\ log' = log \o RetryLog(attempt)
    /\ html_content' = Some(body)
    /\ pc' = "fetched"
    /\ UNCHANGED <<month, EMAIL_PASSWORD, attempt, calls, deals, qualifying,
                   smtp, email, sendResult, exitCode>>

\* search_hannaford_apples, one iteration in which the request raises; after
\* the last iteration the function returns None.
FetchFailure(kind) ==
    /\ pc = "fetch"
    /\ sleeps' = sleeps \o AttemptSleeps(attempt)
    /\ httpCalls' = httpCalls + 1
    /\ outcomes' = Append(outcomes, kind)
    /\ log' = log \o RetryLog(attempt)
                  \o <<Msg(IF kind = "timeout" THEN "warn: Attempt timed out"
                                               ELSE "warn: Attempt failed")>>
                  \o (IF attempt = max_retries - 1
                      THEN <<Msg(IF kind = "timeout"
                                 THEN "error: All retry attempts failed due to timeout"
                                 ELSE "error: All retry attempts failed")>>
                      ELSE <<>>)
    /\ IF RangeHasNext(attempt + 1)
       THEN /\ attempt' = attempt + 1
            /\ pc' = "fetch"
            /\ UNCHANGED html_content
       ELSE /\ html_content' = None
            /\ pc' = "fetched"
            /\ UNCHANGED attempt
    /\ UNCHANGED <<month, EMAIL_PASSWORD, calls, deals, qualifying,
                   smtp, email, sendResult, exitCode>>

\* main, lines 197-199.
CheckFetch ==
    /\ pc = "fetched"
    /\ IF ~HasContent(html_content)
       THEN /\ log' = Append(log, Msg("error: Could not fetch search results"))
            /\ Exit(1)
       ELSE /\ pc' = "parse"
            /\ UNCHANGED <<log, exitCode>>
    /\ UNCHANGED <<month, EMAIL_PASSWORD, attempt, outcomes, sleeps, httpCalls,
                   html_content, calls, deals, qualifying, smtp, email,
                   sendResult>>

\* main, lines 202-206.
Parse ==
    /\ pc = "parse"
    /\ calls' = Append(calls, "parse_apple_deals")
    /\ deals' = parse_apple_deals(html_content)
    /\ IF IsEmptyList(deals')
       THEN /\ log' = Append(log, Msg("warn: No apple products found"))
            /\ Exit(1)
       ELSE /\ pc' = "filter"
            /\ UNCHANGED <<log, exitCode>>
    /\ UNCHANGED <<month, EMAIL_PASSWORD, attempt, outcomes, sleeps, httpCalls,
                   html_content, qualifying, smtp, email, sendResult>>

\* main, lines 209-217.
Filter ==
    /\ pc = "filter"
    /\ calls' = Append(calls, "filter_qualifying_deals")
    /\ qualifying' = filter_qualifying_deals(deals)
    /\ IF IsEmptyList(qualifying')
       THEN /\ log' = Append(log, Msg("result: No apple deals found"))
            /\ Exit(0)
       ELSE /\ log' = log \o <<Msg("Apple deal(s) detected")>>
                      \o [i \in 1..Len(qualifying') |->
                            [msg  |-> "deal",
                             text |-> DealLine(SortedByUnitPrice(qualifying')[i])]]
            /\ pc' = "notify"
            /\ UNCHANGED exitCode
    /\ UNCHANGED <<month, EMAIL_PASSWORD, attempt, outcomes, sleeps, httpCalls,
                   html_content, deals, smtp, email, sendResult>>

\* The effect of a call send_alert_email(ds) on the state.
SendEffect(ds, fail) ==
    LET r == send_alert_email(ds, EMAIL_PASSWORD, fail) IN
    /\ calls' = Append(calls, "send_alert_email")
    /\ sendResult' = r.ret
    /\ smtp' = r.smtp
    /\ email' = r.email
    /\ log' = log \o r.log

\* main, line 220, and the end of main: the return value is dropped; an
\* exception leaving send_alert_email would end the process with status 1.
Notify(fail) ==
    /\ pc = "notify"
    /\ SendEffect(qualifying, fail)
    /\ Exit(IF IsNone(sendResult') THEN 1 ELSE 0)
    /\ UNCHANGED <<month, EMAIL_PASSWORD, attempt, outcomes, sleeps, httpCalls,
                   html_content, deals, qualifying>>

Next ==
    \/ SeasonGate
    \/ \E body \in Bodies : FetchSuccess(body)
    \/ \E kind \in FailureKinds : FetchFailure(kind)
    \/ CheckFetch
    \/ Parse
    \/ Filter
    \/ \E fail \in FailPoints : Notify(fail)

Spec == Init /\ [][Next]_vars

\* ---------------------------------------------- the functions on their own
\* Deal records as a caller may hand them to the filter and the notifier.
Deal(n, u) ==
    [name       |-> n,
     price      |-> IF IsNone(u) THEN 1200 ELSE Val(u),
     variant    |-> IF IsNone(u) THEN T_bottle ELSE T_perlb,
     category   |-> T_produce,
     is_per_lb  |-> ~IsNone(u),
     unit_price |-> u]

UnitPrices == {None, Some(1200), Some(1450), Some(1500), Some(1501)}
DealUniverse == {Deal(n, u) : n \in {T_FujiApples, T_MacApples}, u \in UnitPrices}

\* A call filter_qualifying_deals(deals).
FilterCall ==
    /\ pc = "call_filter"
    /\ calls' = Append(calls, "filter_qualifying_deals")
    /\ qualifying' = filter_qualifying_deals(deals)
    /\ pc' = "returned"
    /\ UNCHANGED <<month, EMAIL_PASSWORD, attempt, outcomes, sleeps, httpCalls,
                   html_content, deals, log, smtp, email, sendResult, exitCode>>

\* A call parse_apple_deals(html_content), its result then handed to the filter.
ParseCall ==
    /\ pc = "call_parse"
    /\ calls' = Append(calls, "parse_apple_deals")
    /\ deals' = parse_apple_deals(html_content)
    /\ pc' = "call_filter"
    /\ UNCHANGED <<month, EMAIL_PASSWORD, attempt, outcomes, sleeps, httpCalls,
                   html_content, qualifying, log, smtp, email, sendResult,
                   exitCode>>

\* A call send_alert_email(qualifying).
SendCall(fail) ==
    /\ pc = "call_send"
    /\ SendEffect(qualifying, fail)
    /\ pc' = IF IsNone(sendResult') THEN "raised" ELSE "returned"
    /\ UNCHANGED <<month, EMAIL_PASSWORD, attempt, outcomes, sleeps, httpCalls,
                   html_content, deals, qualifying, exitCode>>

InitFilter ==
    /\ pc = "call_filter"
    /\ month = 9 /\ EMAIL_PASSWORD = None /\ html_content = None
    /\ deals \in SeqsUpTo(DealUniverse, MaxDeals)
    /\ qualifying = <<>>
    /\ Idle

InitParse ==
    /\ pc = "call_parse"
    /\ month = 9 /\ EMAIL_PASSWORD = None
    /\ html_content \in {None} \cup {Some(b) : b \in SeqsUpTo(Fragments, MaxDeals)}
    /\ deals = <<>> /\ qualifying = <<>>
    /\ Idle

InitNotify ==
    /\ pc = "call_send"
    /\ month = 9 /\ EMAIL_PASSWORD \in Passwords /\ html_content = None
    /\ deals = <<>>
    /\ qualifying \in SeqsUpTo(DealUniverse, MaxDeals)
    /\ Idle

NextFilter == FilterCall
NextParse == ParseCall \/ FilterCall
NextNotify == \E fail \in FailPoints : SendCall(fail)

SpecFilter == InitFilter /\ [][NextFilter]_vars
SpecParse == InitParse /\ [][NextParse]_vars
SpecNotify == InitNotify /\ [][NextNotify]_vars

\* =================================================================== claims
Called(f) == \E i \in 1..Len(calls) : calls[i] = f
Logged(m) == \E i \in 1..Len(log) : log[i].msg = m
NoOk == \A i \in 1..Len(outcomes) : outcomes[i] # "ok"
FetchReturned == Called("search_hannaford_apples") /\ pc # "fetch"

\* C1: search_hannaford_apples makes one HTTP request per attempt, makes no
\* attempt after a successful one, returns None only after exactly 3 failed
\* attempts (whatever their kinds), and returns the text after exactly k
\* attempts when the k-th is the first to succeed.
C1_ExactAttempts ==
    /\ httpCalls = Len(outcomes)
    /\ \A i \in 1..Len(outcomes) : outcomes[i] = "ok" => i = Len(outcomes)
    /\ FetchReturned =>
          IF IsNone(html_content)
          THEN httpCalls = 3 /\ NoOk
          ELSE /\ httpCalls \in 1..3
               /\ outcomes[httpCalls] = "ok"
               /\ \A i \in 1..(httpCalls - 1) : outcomes[i] # "ok"

C1_Witness ==
    /\ pc = "fetched"
    /\ IsNone(html_content)
    /\ outcomes = <<"timeout", "error", "timeout">>
    /\ httpCalls = 3

\* C2: a run of main that has ended has exit status 0 or 1; the status is 1
\* exactly when the fetch was attempted and either failed or left no product
\* extracted; it is 0 out of season, when no deal qualifies, and after the
\* notification step; before the end there is no exit status.
C2_ExitStatus ==
    /\ pc = "exited" =>
          /\ exitCode \in {Some(0), Some(1)}
          /\ exitCode = Some(1) <=>
                /\ Called("search_hannaford_apples")
                /\ IsNone(html_content) \/ deals = <<>>
          /\ month \notin {8, 9, 10} => exitCode = Some(0)
          /\ Called("filter_qualifying_deals") => exitCode = Some(0)
          /\ Called("send_alert_email") => exitCode = Some(0)
    /\ pc # "exited" => exitCode = None

C2_Witness ==
    /\ pc = "exited"
    /\ exitCode = Some(1)
    /\ Called("parse_apple_deals")
    /\ deals = <<>>
    /\ html_content = Some(<<F_Pears, F_FujiBadPrice>>)

\* C3: with seasonal gating on and the month outside {Aug, Sep, Oct}, main
\* exits with status 0 and nothing else runs: no HTTP request, no sleep, no
\* fetch, parse or filter call, no SMTP operation.
C3_OutOfSeason ==
    (ONLY_IN_SEASON /\ month \notin {8, 9, 10}) =>
        /\ pc \in {"main", "exited"}
        /\ pc = "exited" => exitCode = Some(0)
        /\ httpCalls = 0 /\ sleeps = <<>> /\ outcomes = <<>>
        /\ smtp = <<>> /\ email = None /\ sendResult = None
        /\ \A i \in 1..Len(calls) : calls[i] = "in_season"

C3_Witness ==
    /\ month = 7
    /\ pc = "exited"
    /\ exitCode = Some(0)
    /\ calls = <<"in_season">>

\* C4: a call of filter_qualifying_deals returns exactly the deals whose
\* unit_price is present and at most 1.50, in input order (1.50 itself
\* included, anything above excluded), and leaves its argument as it was.
C4_InThreshold(d) == d.unit_price # <<>> /\ d.unit_price[1] <= 1500
C4_FilterExact ==
    [][pc = "call_filter" =>
          /\ qualifying' = SelectSeq(deals, C4_InThreshold)
          /\ deals' = deals]_vars

C4_Witness ==
    /\ pc = "returned"
    /\ deals = <<Deal(T_MacApples, Some(1501)), Deal(T_FujiApples, Some(1500)),
                 Deal(T_FujiApples, None)>>
    /\ qualifying = <<Deal(T_FujiApples, Some(1500))>>

\* C5: every Deal made by parse_apple_deals has unit_price present exactly
\* when is_per_lb is true, and then equal to its price; so no deal with
\* is_per_lb false is in the output of the filter, whatever its price.
C5_UnitPriceIffPerLb ==
    /\ \A i \in 1..Len(deals) :
          /\ ~IsNone(deals[i].unit_price) <=> deals[i].is_per_lb
          /\ ~IsNone(deals[i].unit_price) =>
                Val(deals[i].unit_price) = deals[i].price
    /\ \A j \in 1..Len(qualifying) : qualifying[j].is_per_lb
    /\ pc = "returned" =>
          \A i \in 1..Len(deals) :
             ~deals[i].is_per_lb =>
                 \A j \in 1..Len(qualifying) : qualifying[j] # deals[i]

C5_Witness ==
    /\ pc = "returned"
    /\ \E i \in 1..Len(deals) :
          /\ ~deals[i].is_per_lb
          /\ deals[i].price = 1200
          /\ IsNone(deals[i].unit_price)
    /\ \E i \in 1..Len(deals) : deals[i].is_per_lb /\ deals[i].price = 1200
    /\ Len(qualifying) = 1

\* C6: parse_apple_deals returns one Deal, in document order, for exactly
\* the product elements whose name or category contains "apple" (in any
\* case) and whose price parses; any other element is skipped, and the
\* Deals of the elements before and after it are what they are without it.
C6_Kept(f) ==
    /\ IsProduct(f)
    /\ \/ Contains(T_apple, Lower(f.attrs.data_name))
       \/ Contains(T_apple, Lower(Get(f.attrs, "data_category")))
    /\ ~IsNone(ParseFloat(f.attrs.data_price))
C6_ParseSkipsBadElements ==
    pc \in {"call_filter", "returned"} =>
        IF IsNone(html_content) THEN deals = <<>>
        ELSE LET body == Val(html_content)
                 kept == SelectSeq(body, C6_Kept)
             IN  /\ Len(deals) = Len(kept)
                 /\ \A i \in 1..Len(kept) :
                       /\ deals[i].name = ReplacePlus(kept[i].attrs.data_name)
                       /\ deals[i].price = Val(ParseFloat(kept[i].attrs.data_price))
                       /\ deals[i].variant = Get(kept[i].attrs, "data_variant")
                       /\ deals[i].category = Get(kept[i].attrs, "data_category")
                 /\ \A k \in 1..Len(body) :
                       ~C6_Kept(body[k]) =>
                           deals = parse_apple_deals(Some(SubSeq(body, 1, k - 1)))
                                   \o parse_apple_deals(Some(SubSeq(body, k + 1, Len(body))))

C6_Witness ==
    /\ pc = "call_filter"
    /\ html_content = Some(<<F_Gala, F_FujiBadPrice, F_Honeycrisp>>)
    /\ Len(deals) = 2
    /\ deals[1].price = 1200 /\ deals[2].price = 1500

AllStepsOk ==
    /\ Len(smtp) = 5
    /\ \A i \in 1..Len(smtp) : smtp[i].ok /\ smtp[i].op = SmtpSteps[i]

\* C7: a call of send_alert_email always returns a boolean (no exception
\* leaves it); it returns True only when the message was composed and all
\* of connect, STARTTLS, login, sendmail and quit succeeded, False
\* otherwise; and main then ends with status 0, the qualifying deals logged.
C7_SendFailureContained ==
    Called("send_alert_email") =>
        /\ sendResult \in {Some(TRUE), Some(FALSE)}
        /\ sendResult = Some(TRUE) <=> (~IsNone(email) /\ AllStepsOk)
        /\ pc = "exited" /\ exitCode = Some(0)
        /\ Logged("Apple deal(s) detected")
        /\ Cardinality({i \in 1..Len(log) : log[i].msg = "deal"}) = Len(qualifying)

C7_Witness ==
    /\ Called("send_alert_email")
    /\ sendResult = Some(FALSE)
    /\ Len(smtp) = 3 /\ smtp[3].op = "login" /\ ~smtp[3].ok
    /\ pc = "exited" /\ exitCode = Some(0)

\* C8: with the SMTP credential unset or empty, send_alert_email invokes no
\* SMTP operation and composes nothing, returns False, and main ends
\* normally.
C8_NoCredentialNoSend ==
    (EMAIL_PASSWORD = None \/ EMAIL_PASSWORD = Some(<<>>)) =>
        /\ smtp = <<>> /\ email = None
        /\ Called("send_alert_email") =>
              /\ sendResult = Some(FALSE)
              /\ pc = "exited" /\ exitCode = Some(0)

C8_Witness ==
    /\ EMAIL_PASSWORD = Some(<<>>)
    /\ Called("send_alert_email")
    /\ sendResult = Some(FALSE)
    /\ smtp = <<>>

\* C9: the message composed for a non-empty list of deals has one line per
\* deal, the lines being those of the deals taken in ascending order of
\* unit_price whatever the order of the list, and its subject carries the
\* length of the list.
C9_Perms(n) == {p \in [1..n -> 1..n] : \A i, j \in 1..n : p[i] = p[j] => i = j}
C9_BodySorted ==
    (~IsNone(email) /\ qualifying # <<>>) =>
        LET m == Val(email)
            n == Len(qualifying)
        IN  /\ Len(m.lines) = n
            /\ \E p \in C9_Perms(n) :
                  /\ \A i, j \in 1..n :
                        i < j => Val(qualifying[p[i]].unit_price)
                                   <= Val(qualifying[p[j]].unit_price)
                  /\ \A i \in 1..n :
                        m.lines[i] =
                           <<"$">> \o Fmt2f(Val(qualifying[p[i]].unit_price))
                                   \o T_perLbDash \o qualifying[p[i]].name
                                   \o <<" ", "(">> \o qualifying[p[i]].variant
                                   \o <<")">>
            /\ m.subject = T_subjectHead \o NatStr(n) \o T_subjectTail

C9_Witness ==
    /\ pc = "returned"
    /\ qualifying = <<Deal(T_FujiApples, Some(1500)), Deal(T_MacApples, Some(1200)),
                      Deal(T_FujiApples, Some(1450))>>
    /\ ~IsNone(email)
    /\ Val(email).lines[1] = DealLine(Deal(T_MacApples, Some(1200)))
    /\ Val(email).lines[3] = DealLine(Deal(T_FujiApples, Some(1500)))

\* C10: main reports "Could not fetch search results" only when all three
\* attempts failed; whenever an attempt got a successful response, whatever
\* its body, main goes on to parse_apple_deals.
C10_FetchFailedOnlyWhenAllFail ==
    /\ Logged("error: Could not fetch search results") =>
          Len(outcomes) = 3 /\ NoOk
    /\ (pc = "exited" /\ ~NoOk) => Called("parse_apple_deals")

====
